---- MODULE Spec2Model ----
(* Binding of CREATE TABLE (src/binder/statement/create_table.rs) against  *)
(* a shared catalog.  Identifiers are sequences of characters, so that     *)
(* case folding is computed character by character.  A binder runs        *)
(* bind_create_table step by step (one step per catalog lookup or loop),   *)
(* and its caller may then register the table with add_table.  Spec has    *)
(* one binder and the full statement set; SpecConc has several binders     *)
(* interleaving on the shared catalog.                                     *)
EXTENDS Integers, Sequences, FiniteSets, TLC

VARIABLES catalog, pc, stmt, name, database_name, schema_name, table_name,
          db, schema, set, result, added, seen, prev

vars == <<catalog, pc, stmt, name, database_name, schema_name, table_name,
          db, schema, set, result, added, seen, prev>>

locals == <<name, database_name, schema_name, table_name, db, schema, set>>

-----------------------------------------------------------------------------
(* Bounds of the explored inputs.                                          *)

MaxCols == 3

MaxOpts == 2

MaxTables == 2

Binders == {"b1", "b2"}

-----------------------------------------------------------------------------
(* Identifiers and case folding.                                           *)

LowerChar(c) ==
    CASE c = "A" -> "a"
      [] c = "B" -> "b"
      [] OTHER -> c

to_lowercase(s) == [i \in DOMAIN s |-> LowerChar(s[i])]

lower_case_name(n) == [i \in DOMAIN n |-> to_lowercase(n[i])]

DEFAULT_DATABASE_NAME == <<"a">>

DEFAULT_SCHEMA_NAME == <<"a">>

NoName == <<>>

split_name(n) ==
    CASE Len(n) = 1 -> [ok |-> TRUE, database |-> DEFAULT_DATABASE_NAME,
                        schema |-> DEFAULT_SCHEMA_NAME, table |-> n[1]]
      [] Len(n) = 2 -> [ok |-> TRUE, database |-> DEFAULT_DATABASE_NAME,
                        schema |-> n[1], table |-> n[2]]
      [] Len(n) = 3 -> [ok |-> TRUE, database |-> n[1],
                        schema |-> n[2], table |-> n[3]]
      [] OTHER -> [ok |-> FALSE, database |-> NoName,
                   schema |-> NoName, table |-> NoName]

-----------------------------------------------------------------------------
(* Outcomes of a bind call.                                                *)

NoResult == [kind |-> "None"]

Ok(b) == [kind |-> "Ok", bound |-> b]

Err(k, n) == [kind |-> k, name |-> n]

Panic == [kind |-> "Panic"]

BoundCreateTable(d, s, t, cols) ==
    [database_id |-> d, schema_id |-> s, table_name |-> t, columns |-> cols]

-----------------------------------------------------------------------------
(* The catalog: database name -> id and schemas; schema name -> id and the *)
(* names of its tables.                                                    *)

get_database_by_name(cat, n) == n \in DOMAIN cat

get_schema_by_name(cat, d, n) == n \in DOMAIN cat[d].schemas

get_table_by_name(cat, d, s, n) == n \in cat[d].schemas[s].tables

database_id(cat, d) == cat[d].id

schema_id(cat, d, s) == cat[d].schemas[s].id

AllTables(cat) ==
    UNION { { <<d, s, t>> : t \in cat[d].schemas[s].tables } :
            <<d, s>> \in UNION { { <<e, x>> : x \in DOMAIN cat[e].schemas } :
                                 e \in DOMAIN cat } }

TotalTables(cat) == Cardinality(AllTables(cat))

get_database_by_id(cat, i) == CHOOSE d \in DOMAIN cat : cat[d].id = i

get_schema_by_id(cat, d, i) ==
    CHOOSE s \in DOMAIN cat[d].schemas : cat[d].schemas[s].id = i

add_table(cat, d, s, n) ==
    IF n \in cat[d].schemas[s].tables
    THEN [ok |-> FALSE, catalog |-> cat]
    ELSE [ok |-> TRUE,
          catalog |-> [cat EXCEPT ![d].schemas[s].tables = @ \cup {n}]]

RootCatalog ==
    (<<"a">> :> [id |-> 0,
                 schemas |-> (<<"a">> :> [id |-> 0, tables |-> {}])])

TwoSchemaCatalog ==
    (<<"a">> :> [id |-> 0,
                 schemas |-> (<<"a">> :> [id |-> 0, tables |-> {}]) @@
                             (<<"b">> :> [id |-> 1, tables |-> {}])])

-----------------------------------------------------------------------------
(* Column definitions and their lowering to catalog columns.               *)

Null == [kind |-> "Null", is_primary |-> FALSE]

NotNull == [kind |-> "NotNull", is_primary |-> FALSE]

Unique(p) == [kind |-> "Unique", is_primary |-> p]

Default == [kind |-> "Default", is_primary |-> FALSE]

ColumnOptions == {Null, NotNull, Unique(TRUE), Unique(FALSE), Default}

ColumnDef(n, ty, opts) == [name |-> n, data_type |-> ty, options |-> opts]

\* mutant: every UNIQUE option counts as a primary key
ApplyOption_UniqueIsPrimary(acc, opt) ==
    CASE opt.kind = "Null" -> [acc EXCEPT !.is_nullable = TRUE]
      [] opt.kind = "NotNull" -> [acc EXCEPT !.is_nullable = FALSE]
      [] opt.kind = "Unique" -> [acc EXCEPT !.is_primary = TRUE]
      [] OTHER -> [acc EXCEPT !.panic = TRUE]

\* mutant: an unrecognized option is skipped
ApplyOption_IgnoreUnknown(acc, opt) ==
    CASE opt.kind = "Null" -> [acc EXCEPT !.is_nullable = TRUE]
      [] opt.kind = "NotNull" -> [acc EXCEPT !.is_nullable = FALSE]
      [] opt.kind = "Unique" -> [acc EXCEPT !.is_primary = opt.is_primary]
      [] OTHER -> acc

ApplyOption(acc, opt) ==
    CASE opt.kind = "Null" -> [acc EXCEPT !.is_nullable = TRUE]
      [] opt.kind = "NotNull" -> [acc EXCEPT !.is_nullable = FALSE]
      [] opt.kind = "Unique" -> [acc EXCEPT !.is_primary = opt.is_primary]
      [] OTHER -> [acc EXCEPT !.panic = TRUE]

RECURSIVE FoldOptions(_, _, _)
FoldOptions(opts, i, acc) ==
    IF i > Len(opts) \/ acc.panic THEN acc
    ELSE FoldOptions(opts, i + 1, ApplyOption(acc, opts[i]))

\* mutant: the column keeps the case it was written in
ColumnName_Raw(cdef) == cdef.name

ColumnName(cdef) == to_lowercase(cdef.name)

From(cdef) ==
    LET acc == FoldOptions(cdef.options, 1,
                   [panic |-> FALSE, is_nullable |-> TRUE, is_primary |-> FALSE])
    IN [panic |-> acc.panic,
        id |-> 0,
        name |-> ColumnName(cdef),
        datatype |-> [kind |-> cdef.data_type, nullable |-> acc.is_nullable],
        is_primary |-> acc.is_primary]

\* mutant: identifiers count from one
ColumnId_OneBased(idx) == idx

ColumnId(idx) == idx - 1

MapColumns(columns) ==
    [idx \in DOMAIN columns |->
        [From(columns[idx]) EXCEPT !.id = ColumnId(idx)]]

Catalogued(col) ==
    [id |-> col.id, name |-> col.name, datatype |-> col.datatype,
     is_primary |-> col.is_primary]

\* mutant: the error carries the folded name
DupName_Folded(col) == to_lowercase(col.name)

DupName(col) == col.name

RECURSIVE DupLoop(_, _, _)
DupLoop(columns, i, seenset) ==
    IF i > Len(columns) THEN [dup |-> FALSE, name |-> NoName, set |-> seenset]
    ELSE IF to_lowercase(columns[i].name) \in seenset
         THEN [dup |-> TRUE, name |-> DupName(columns[i]), set |-> seenset]
         ELSE DupLoop(columns, i + 1, seenset \cup {to_lowercase(columns[i].name)})

-----------------------------------------------------------------------------
(* The statements offered to the binder.                                   *)

NameIdents == { <<"A">>, <<"b">> }

ColIdents == { <<"a">>, <<"A">>, <<"b">>, <<"c">> }

DataTypes == { "Int", "Bool" }

SeqsUpTo(S, n) == UNION { [1..k -> S] : k \in 0..n }

QNames == SeqsUpTo(NameIdents, Len(<<"db", "schema", "table", "extra">>)) \ { <<>> }

Plain(n) == ColumnDef(n, "Int", <<>>)

\* every qualified name, with column lists showing each later defect
CrossColumns ==
    { <<>>,
      << Plain(<<"a">>) >>,
      << Plain(<<"A">>), ColumnDef(<<"b">>, "Int", <<NotNull>>) >>,
      << ColumnDef(<<"a">>, "Int", <<NotNull>>), Plain(<<"A">>) >>,
      << ColumnDef(<<"a">>, "Int", <<Default>>) >>,
      << ColumnDef(<<"a">>, "Int", <<Default>>), Plain(<<"A">>) >> }

\* every list of column names, without options
PlainColumns ==
    { [i \in DOMAIN ns |-> Plain(ns[i])] : ns \in SeqsUpTo(ColIdents, MaxCols) }

\* every option list, on a single column and on the first of two columns
OptionColumns ==
    { << ColumnDef(<<"A">>, ty, opts) >> :
          ty \in DataTypes, opts \in SeqsUpTo(ColumnOptions, MaxOpts) }
    \cup
    { << ColumnDef(<<"b">>, "Int", opts), ColumnDef(<<"A">>, "Bool", <<Unique(TRUE)>>) >> :
          opts \in SeqsUpTo(ColumnOptions, MaxOpts) }

CreateTable(n, cols) == [name |-> n, columns |-> cols]

\* the names the column families are bound under
FamilyNames == { << <<"A">> >>, << <<"b">>, <<"B">> >> }

Statements ==
    { CreateTable(n, cols) : n \in QNames, cols \in CrossColumns }
    \cup { CreateTable(n, cols) :
               n \in FamilyNames, cols \in PlainColumns \cup OptionColumns }

ConcStatements ==
    { CreateTable(n, cols) :
          n \in { << <<"A">> >>, << <<"a">> >>, << <<"a">>, <<"A">> >>, << <<"b">> >> },
          cols \in { <<>>, << Plain(<<"a">>) >> } }

-----------------------------------------------------------------------------
(* The state machine.                                                      *)

NoPrev == [result |-> NoResult, seen |-> <<>>]

NoStmt == CreateTable(<<>>, <<>>)

Init ==
    /\ catalog \in {RootCatalog, TwoSchemaCatalog}
    /\ pc = [t \in Binders |-> "idle"]
    /\ stmt = [t \in Binders |-> NoStmt]
    /\ name = [t \in Binders |-> <<>>]
    /\ database_name = [t \in Binders |-> NoName]
    /\ schema_name = [t \in Binders |-> NoName]
    /\ table_name = [t \in Binders |-> NoName]
    /\ db = [t \in Binders |-> NoName]
    /\ schema = [t \in Binders |-> NoName]
    /\ set = [t \in Binders |-> {}]
    /\ result = [t \in Binders |-> NoResult]
    /\ added = [t \in Binders |-> "none"]
    /\ seen = [t \in Binders |-> <<>>]
    /\ prev = [t \in Binders |-> NoPrev]

\* the function returns r to its caller
Return(t, r) ==
    /\ result' = [result EXCEPT ![t] = r]
    /\ pc' = [pc EXCEPT ![t] = "ret"]

\* mutant: the name is split without being lower-cased
Enter_NoLowerCase(t, s) ==
    LET n == s.name
        parts == split_name(n)
    IN /\ stmt' = [stmt EXCEPT ![t] = s]
       /\ name' = [name EXCEPT ![t] = n]
       /\ seen' = [seen EXCEPT ![t] = catalog]
       /\ added' = [added EXCEPT ![t] = "none"]
       /\ IF parts.ok
          THEN /\ database_name' = [database_name EXCEPT ![t] = parts.database]
               /\ schema_name' = [schema_name EXCEPT ![t] = parts.schema]
               /\ table_name' = [table_name EXCEPT ![t] = parts.table]
               /\ pc' = [pc EXCEPT ![t] = "db"]
               /\ result' = [result EXCEPT ![t] = NoResult]
          ELSE /\ Return(t, Err("NameResolution", NoName))
               /\ UNCHANGED <<database_name, schema_name, table_name>>
       /\ UNCHANGED <<catalog, db, schema, set>>

\* lines 18-22: entry, lower_case_name and split_name
Enter(t, s) ==
    LET n == lower_case_name(s.name)
        parts == split_name(n)
    IN /\ stmt' = [stmt EXCEPT ![t] = s]
       /\ name' = [name EXCEPT ![t] = n]
       /\ seen' = [seen EXCEPT ![t] = catalog]
       /\ added' = [added EXCEPT ![t] = "none"]
       /\ IF parts.ok
          THEN /\ database_name' = [database_name EXCEPT ![t] = parts.database]
               /\ schema_name' = [schema_name EXCEPT ![t] = parts.schema]
               /\ table_name' = [table_name EXCEPT ![t] = parts.table]
               /\ pc' = [pc EXCEPT ![t] = "db"]
               /\ result' = [result EXCEPT ![t] = NoResult]
          ELSE /\ Return(t, Err("NameResolution", NoName))
               /\ UNCHANGED <<database_name, schema_name, table_name>>
       /\ UNCHANGED <<catalog, db, schema, set>>

\* the caller binds a new statement
Call(t, S) ==
    /\ pc[t] = "idle"
    /\ \E s \in S : Enter(t, s)
    /\ prev' = [prev EXCEPT ![t] = NoPrev]

\* the caller binds the same statement a second time
Rebind(t) ==
    /\ pc[t] \in {"ret", "added"}
    /\ prev[t] = NoPrev
    /\ Enter(t, stmt[t])
    /\ prev' = [prev EXCEPT ![t] = [result |-> result[t], seen |-> seen[t]]]

\* lines 23-26
GetDatabase(t) ==
    /\ pc[t] = "db"
    /\ IF get_database_by_name(catalog, database_name[t])
       THEN /\ db' = [db EXCEPT ![t] = database_name[t]]
            /\ pc' = [pc EXCEPT ![t] = "schema"]
            /\ UNCHANGED result
       ELSE /\ Return(t, Err("InvalidDatabase", database_name[t]))
            /\ UNCHANGED db
    /\ UNCHANGED <<catalog, stmt, name, database_name, schema_name, table_name,
                   schema, set, added, seen, prev>>

\* lines 27-29
GetSchema(t) ==
    /\ pc[t] = "schema"
    /\ IF get_schema_by_name(catalog, db[t], schema_name[t])
       THEN /\ schema' = [schema EXCEPT ![t] = schema_name[t]]
            /\ pc' = [pc EXCEPT ![t] = "table"]
            /\ UNCHANGED result
       ELSE /\ Return(t, Err("InvalidSchema", schema_name[t]))
            /\ UNCHANGED schema
    /\ UNCHANGED <<catalog, stmt, name, database_name, schema_name, table_name,
                   db, set, added, seen, prev>>

\* mutant: the columns are checked for duplicates before the table is
CheckTable_ColumnsFirst(t) ==
    /\ pc[t] = "table"
    /\ LET r == DupLoop(stmt[t].columns, 1, {})
       IN IF r.dup
          THEN Return(t, Err("DuplicatedColumn", r.name))
          ELSE IF get_table_by_name(catalog, db[t], schema[t], table_name[t])
               THEN Return(t, Err("DuplicatedTable", table_name[t]))
               ELSE /\ pc' = [pc EXCEPT ![t] = "dup"]
                    /\ UNCHANGED result
    /\ UNCHANGED <<catalog, stmt, name, database_name, schema_name, table_name,
                   db, schema, set, added, seen, prev>>

\* mutant: the existence check is left out
CheckTable_Skipped(t) ==
    /\ pc[t] = "table"
    /\ pc' = [pc EXCEPT ![t] = "dup"]
    /\ UNCHANGED <<catalog, stmt, name, database_name, schema_name, table_name,
                   db, schema, set, result, added, seen, prev>>

\* lines 30-32
CheckTable(t) ==
    /\ pc[t] = "table"
    /\ IF get_table_by_name(catalog, db[t], schema[t], table_name[t])
       THEN Return(t, Err("DuplicatedTable", table_name[t]))
       ELSE /\ pc' = [pc EXCEPT ![t] = "dup"]
            /\ UNCHANGED result
    /\ UNCHANGED <<catalog, stmt, name, database_name, schema_name, table_name,
                   db, schema, set, added, seen, prev>>

\* mutant: the set of seen names is kept from the previous call
CheckColumns_StaleSet(t) ==
    /\ pc[t] = "dup"
    /\ LET r == DupLoop(stmt[t].columns, 1, set[t])
       IN /\ set' = [set EXCEPT ![t] = r.set]
          /\ IF r.dup
             THEN Return(t, Err("DuplicatedColumn", r.name))
             ELSE /\ pc' = [pc EXCEPT ![t] = "map"]
                  /\ UNCHANGED result
    /\ UNCHANGED <<catalog, stmt, name, database_name, schema_name, table_name,
                   db, schema, added, seen, prev>>

\* lines 33-39
CheckColumns(t) ==
    /\ pc[t] = "dup"
    /\ LET r == DupLoop(stmt[t].columns, 1, {})
       IN /\ set' = [set EXCEPT ![t] = r.set]
          /\ IF r.dup
             THEN Return(t, Err("DuplicatedColumn", r.name))
             ELSE /\ pc' = [pc EXCEPT ![t] = "map"]
                  /\ UNCHANGED result
    /\ UNCHANGED <<catalog, stmt, name, database_name, schema_name, table_name,
                   db, schema, added, seen, prev>>

\* mutant: a successful bind registers the table itself
BindColumns_Registers(t) ==
    /\ pc[t] = "map"
    /\ LET cols == MapColumns(stmt[t].columns)
       IN IF \E i \in DOMAIN cols : cols[i].panic
          THEN /\ result' = [result EXCEPT ![t] = Panic]
               /\ pc' = [pc EXCEPT ![t] = "panic"]
               /\ UNCHANGED catalog
          ELSE /\ Return(t, Ok(BoundCreateTable(
                       database_id(catalog, db[t]),
                       schema_id(catalog, db[t], schema[t]),
                       table_name[t],
                       [i \in DOMAIN cols |-> Catalogued(cols[i])])))
               /\ catalog' = add_table(catalog, db[t], schema[t], table_name[t]).catalog
    /\ UNCHANGED <<stmt, name, database_name, schema_name, table_name,
                   db, schema, set, added, seen, prev>>

\* lines 40-54
BindColumns(t) ==
    /\ pc[t] = "map"
    /\ LET cols == MapColumns(stmt[t].columns)
       IN IF \E i \in DOMAIN cols : cols[i].panic
          THEN /\ result' = [result EXCEPT ![t] = Panic]
               /\ pc' = [pc EXCEPT ![t] = "panic"]
          ELSE Return(t, Ok(BoundCreateTable(
                   database_id(catalog, db[t]),
                   schema_id(catalog, db[t], schema[t]),
                   table_name[t],
                   [i \in DOMAIN cols |-> Catalogued(cols[i])])))
    /\ UNCHANGED <<catalog, stmt, name, database_name, schema_name, table_name,
                   db, schema, set, added, seen, prev>>

\* lines 127-129: the caller registers the table it has bound
AddTable(t) ==
    /\ pc[t] = "ret"
    /\ result[t].kind = "Ok"
    /\ LET b == result[t].bound
           d == get_database_by_id(catalog, b.database_id)
           s == get_schema_by_id(catalog, d, b.schema_id)
           r == add_table(catalog, d, s, b.table_name)
       IN /\ r.ok => TotalTables(catalog) < MaxTables
          /\ catalog' = r.catalog
          /\ added' = [added EXCEPT ![t] = IF r.ok THEN "ok" ELSE "dup"]
    /\ pc' = [pc EXCEPT ![t] = "added"]
    /\ UNCHANGED <<stmt, locals, result, seen, prev>>

\* the caller is done with the statement; the call's frame is gone
Finish(t) ==
    /\ pc[t] \in {"ret", "added"}
    /\ pc' = [pc EXCEPT ![t] = "idle"]
    /\ stmt' = [stmt EXCEPT ![t] = NoStmt]
    /\ name' = [name EXCEPT ![t] = <<>>]
    /\ database_name' = [database_name EXCEPT ![t] = NoName]
    /\ schema_name' = [schema_name EXCEPT ![t] = NoName]
    /\ table_name' = [table_name EXCEPT ![t] = NoName]
    /\ db' = [db EXCEPT ![t] = NoName]
    /\ schema' = [schema EXCEPT ![t] = NoName]
    /\ set' = [set EXCEPT ![t] = {}]
    /\ result' = [result EXCEPT ![t] = NoResult]
    /\ added' = [added EXCEPT ![t] = "none"]
    /\ seen' = [seen EXCEPT ![t] = <<>>]
    /\ prev' = [prev EXCEPT ![t] = NoPrev]
    /\ UNCHANGED catalog

Bind(t) ==
    \/ GetDatabase(t)
    \/ GetSchema(t)
    \/ CheckTable(t)
    \/ CheckColumns(t)
    \/ BindColumns(t)

Caller(t) ==
    \/ Rebind(t)
    \/ AddTable(t)
    \/ Finish(t)

\* one binder, one statement at a time
Next ==
    \/ Call("b1", Statements)
    \/ Bind("b1")
    \/ Caller("b1")

Spec == Init /\ [][Next]_vars

\* several binders sharing the catalog
NextConc ==
    \E t \in Binders :
        \/ Call(t, ConcStatements)
        \/ Bind(t)
        \/ Caller(t)

SpecConc == Init /\ [][NextConc]_vars

-----------------------------------------------------------------------------
(* What a statement asks for, read off the statement itself.               *)

Splits(s) == Len(s.name) \in 1..3

ObjectPart(s) == to_lowercase(s.name[Len(s.name)])

SchemaPart(s) ==
    IF Len(s.name) >= 2 THEN to_lowercase(s.name[Len(s.name) - 1])
    ELSE DEFAULT_SCHEMA_NAME

DatabasePart(s) ==
    IF Len(s.name) >= 3 THEN to_lowercase(s.name[Len(s.name) - 2])
    ELSE DEFAULT_DATABASE_NAME

Target(s) == <<DatabasePart(s), SchemaPart(s), ObjectPart(s)>>

DbResolves(s, cat) == Splits(s) /\ DatabasePart(s) \in DOMAIN cat

SchemaResolves(s, cat) ==
    DbResolves(s, cat) /\ SchemaPart(s) \in DOMAIN cat[DatabasePart(s)].schemas

TablesOf(s, cat) == cat[DatabasePart(s)].schemas[SchemaPart(s)].tables

TableExists(s, cat) ==
    \E tbl \in TablesOf(s, cat) : to_lowercase(tbl) = ObjectPart(s)

Repeats(s) ==
    { j \in DOMAIN s.columns :
        \E i \in 1..(j - 1) :
            to_lowercase(s.columns[i].name) = to_lowercase(s.columns[j].name) }

FirstRepeat(s) == CHOOSE j \in Repeats(s) : \A k \in Repeats(s) : j <= k

Recognized(opt) == opt.kind \in {"Null", "NotNull", "Unique"}

HasUnsupported(s) ==
    \E i \in DOMAIN s.columns :
        \E k \in DOMAIN s.columns[i].options : ~Recognized(s.columns[i].options[k])

LastOf(opts, kinds) ==
    LET at == { k \in DOMAIN opts : opts[k].kind \in kinds }
    IN IF at = {} THEN 0 ELSE CHOOSE k \in at : \A m \in at : m <= k

LastNullable(opts) ==
    LET k == LastOf(opts, {"Null", "NotNull"})
    IN k = 0 \/ opts[k].kind = "Null"

LastPrimary(opts) ==
    LET k == LastOf(opts, {"Unique"})
    IN k # 0 /\ opts[k].is_primary

Returned(t) == pc[t] \in {"ret", "panic"}

Bound(t) == pc[t] = "ret" /\ result[t].kind = "Ok"

Passes(s, cat) ==
    SchemaResolves(s, cat) /\ ~TableExists(s, cat) /\ Repeats(s) = {}

-----------------------------------------------------------------------------
(* Properties.                                                             *)

\* C1: the error conditions are checked in the order database, schema,
\* table duplication, column duplication, column options, and only the
\* first one that applies is reported.
C1_ErrorOrder ==
    \A t \in Binders :
        (Returned(t) /\ Splits(stmt[t])) =>
            LET s == stmt[t] IN
            IF ~DbResolves(s, catalog) THEN result[t].kind = "InvalidDatabase"
            ELSE IF ~SchemaResolves(s, catalog) THEN result[t].kind = "InvalidSchema"
            ELSE IF TableExists(s, catalog) THEN result[t].kind = "DuplicatedTable"
            ELSE IF Repeats(s) # {} THEN result[t].kind = "DuplicatedColumn"
            ELSE IF HasUnsupported(s) THEN result[t].kind = "Panic"
            ELSE result[t].kind = "Ok"

C1_Witness ==
    \E t \in Binders :
        /\ Returned(t)
        /\ DbResolves(stmt[t], catalog)
        /\ ~SchemaResolves(stmt[t], catalog)
        /\ Repeats(stmt[t]) # {}
        /\ HasUnsupported(stmt[t])
        /\ result[t].kind = "InvalidSchema"

C3_ColumnIds ==
    \A t \in Binders :
        Bound(t) =>
            LET cols == result[t].bound.columns
                defs == stmt[t].columns
            IN /\ Len(cols) = Len(defs)
               /\ \A i \in DOMAIN defs :
                     /\ cols[i].id = i - 1
                     /\ cols[i].name = to_lowercase(defs[i].name)
                     /\ cols[i].datatype.kind = defs[i].data_type

C3_Witness ==
    \E t \in Binders :
        /\ Bound(t)
        /\ Len(stmt[t].columns) >= 3
        /\ result[t].bound.columns[3].id = 2
        /\ result[t].bound.columns[3].name # result[t].bound.columns[1].name

\* C4: when database and schema resolve and the table is absent, colliding
\* column names fail with DuplicatedColumn carrying the original text of
\* the first repeated column.
C4_FirstDuplicate ==
    \A t \in Binders :
        (/\ Returned(t)
         /\ SchemaResolves(stmt[t], catalog)
         /\ ~TableExists(stmt[t], catalog)
         /\ Repeats(stmt[t]) # {})
            => result[t] = Err("DuplicatedColumn",
                               stmt[t].columns[FirstRepeat(stmt[t])].name)

C4_Witness ==
    \E t \in Binders :
        /\ Returned(t)
        /\ result[t].kind = "DuplicatedColumn"
        /\ result[t].name # to_lowercase(result[t].name)
        /\ \E j \in Repeats(stmt[t]) :
              /\ j > FirstRepeat(stmt[t])
              /\ stmt[t].columns[j].name # result[t].name

\* C5: a statement whose table already exists fails with DuplicatedTable
\* carrying the lower-cased table name, whatever its columns are, and the
\* set of seen column names is never built.
C5_DuplicatedTable ==
    \A t \in Binders :
        (/\ Returned(t)
         /\ SchemaResolves(stmt[t], catalog)
         /\ TableExists(stmt[t], catalog))
            => /\ result[t] = Err("DuplicatedTable", ObjectPart(stmt[t]))
               /\ prev[t] = NoPrev => set[t] = {}

C5_Witness ==
    \E t \in Binders :
        /\ Returned(t)
        /\ result[t].kind = "DuplicatedTable"
        /\ stmt[t].name[Len(stmt[t].name)] # result[t].name
        /\ Repeats(stmt[t]) # {}
        /\ HasUnsupported(stmt[t])

\* C6: no step of binding changes the catalog; only the caller's add_table
\* after a returned bind does.
C6_BindDoesNotMutate ==
    [][catalog' # catalog =>
          \E t \in Binders : pc[t] = "ret" /\ pc'[t] = "added"]_vars

C6_Witness ==
    \E t \in Binders :
        /\ Bound(t)
        /\ prev[t].result.kind = "Ok"
        /\ ~TableExists(stmt[t], catalog)
        /\ catalog = prev[t].seen

\* C7: binding the same statement again against an unchanged catalog gives
\* the same outcome.
C7_SameOutcome ==
    \A t \in Binders :
        (/\ Returned(t)
         /\ prev[t] # NoPrev
         /\ prev[t].seen = seen[t]
         /\ seen[t] = catalog)
            => result[t] = prev[t].result

C7_Witness ==
    \E t \in Binders :
        /\ Bound(t)
        /\ prev[t] # NoPrev
        /\ prev[t].seen = catalog
        /\ Len(stmt[t].columns) >= 2
        /\ result[t] = prev[t].result

\* C8: nullability and primary-key-ness of a bound column are those of the
\* last option of the category, with defaults nullable and not primary.
C8_LastOptionWins ==
    \A t \in Binders :
        Bound(t) =>
            \A i \in DOMAIN stmt[t].columns :
                LET col == result[t].bound.columns[i]
                    opts == stmt[t].columns[i].options
                IN /\ col.datatype.nullable = LastNullable(opts)
                   /\ col.is_primary = LastPrimary(opts)

C8_Witness ==
    \E t \in Binders :
        /\ Bound(t)
        /\ \E i \in DOMAIN stmt[t].columns :
              LET opts == stmt[t].columns[i].options
              IN /\ Len(opts) >= 2
                 /\ opts[1].kind = "Null"
                 /\ opts[Len(opts)].kind = "NotNull"
                 /\ ~result[t].bound.columns[i].datatype.nullable
                 /\ ~result[t].bound.columns[i].is_primary

\* C9: a statement that passes the four earlier checks and has an
\* unrecognized column option stops with the unsupported-feature condition.
C9_UnsupportedStops ==
    \A t \in Binders :
        (/\ pc[t] \in {"ret", "panic", "added"}
         /\ Passes(stmt[t], seen[t])
         /\ HasUnsupported(stmt[t]))
            => (pc[t] = "panic" /\ result[t] = Panic)

C9_Witness ==
    \E t \in Binders :
        /\ pc[t] = "panic"
        /\ \E i \in DOMAIN stmt[t].columns :
              LET opts == stmt[t].columns[i].options
              IN /\ Len(opts) >= 2
                 /\ ~Recognized(opts[1])
                 /\ Recognized(opts[Len(opts)])

\* C10: a returned BoundCreateTable carries the ids of the database and
\* schema the name resolves to, the lower-cased table name, absent from that
\* schema, and lower-cased, pairwise distinct column names.
C10_WellFormed ==
    \A t \in Binders :
        Bound(t) =>
            LET s == stmt[t]
                b == result[t].bound
            IN /\ SchemaResolves(s, catalog)
               /\ b.database_id = catalog[DatabasePart(s)].id
               /\ b.schema_id = catalog[DatabasePart(s)].schemas[SchemaPart(s)].id
               /\ b.table_name = ObjectPart(s)
               /\ b.table_name \notin TablesOf(s, catalog)
               /\ \A i \in DOMAIN b.columns :
                     b.columns[i].name = to_lowercase(s.columns[i].name)
               /\ \A i, j \in DOMAIN b.columns :
                     i # j => b.columns[i].name # b.columns[j].name

C10_Witness ==
    \E t \in Binders :
        /\ Bound(t)
        /\ result[t].bound.schema_id # 0
        /\ stmt[t].name[Len(stmt[t].name)] # result[t].bound.table_name
        /\ \E i \in DOMAIN stmt[t].columns :
              stmt[t].columns[i].name # result[t].bound.columns[i].name

====
